---- MODULE Spec2Model ----
(***************************************************************************)
(* Model of src/os_simulator.py: the process table, the four selection     *)
(* policies and the simulation loop of class OperatingSystem.              *)
(*                                                                         *)
(* A process is a record; its position in `processes` is its identity (the *)
(* rotation queue holds pids, which stand for the object references the    *)
(* deque holds).  name and memory are never read by the scheduler and are  *)
(* left out.  One iteration of the `while True` loop of run_simulation is  *)
(* one step, so that the states between the cycles of a run are visible;   *)
(* the loop is synchronous, so no other operation runs while pc # "idle".  *)
(***************************************************************************)
EXTENDS Integers, Sequences, FiniteSets

\* ---- bounds of the model ----
MaxProcs == 3
MaxCpu == 2
MaxPrio == 2
MaxClock == 2

\* ---- ProcessState (src lines 8-13) ----
PRONTO == "Pronto"
EXECUTANDO == "Executando"
BLOQUEADO == "Bloqueado"
FINALIZADO == "Finalizado"
ProcessState == {PRONTO, EXECUTANDO, BLOQUEADO, FINALIZADO}

\* Python's None, for Optional[float] and Optional[Process]
None == 0 - 1

VARIABLES
    processes,   \* self.processes: sequence of process records
    next_pid,    \* self.next_pid
    rr_queue,    \* self.rr_queue: sequence of pids
    now,         \* the last value time.time() returned
    pc,          \* "idle" | "loop" (inside run_simulation) | "halted" (loop left)
    algorithm,   \* local `algorithm` of run_simulation ("" outside a run)
    cycle,       \* local `cycle` of run_simulation
    trace,       \* the "Ciclo" lines printed by the current run: <<pid, ...>>
    entry,       \* the table and the queue as run_simulation found them (<<>> outside a run)
    outcome      \* why the loop of run_simulation was left ("none" while it has not been)

vars == <<processes, next_pid, rr_queue, now, pc, algorithm, cycle, trace, entry, outcome>>

\* ---- inputs ----
CpuInputs == 0..MaxCpu
PrioInputs == 1..MaxPrio
PidInputs == 1..(MaxProcs + 1)
AlgorithmInputs == {"fifo", "sjf", "prio", "rr", "FIFO", "lottery"}

\* time.time(): the wall clock never runs backwards; two reads may coincide.
TimeValues == {t \in now..(now + 1) : t <= MaxClock}

Max(a, b) == IF a >= b THEN a ELSE b

\* str.lower() on the policy names the model feeds in
Lower(s) == IF s = "FIFO" THEN "fifo" ELSE s

\* Python truthiness of an Optional[float]
Truthy(x) == x # None /\ x # 0

\* Process.__init__ without the floor on cpu_time
NewProcess_NoClamp(pid, cpu_time, priority, t) ==
    [pid |-> pid,
     cpu_time |-> cpu_time,
     cpu_remaining |-> cpu_time,
     priority |-> priority,
     state |-> PRONTO,
     arrival_time |-> t,
     finish_time |-> None]

\* Process.__init__
NewProcess(pid, cpu_time, priority, t) ==
    [pid |-> pid,
     cpu_time |-> Max(1, cpu_time),
     cpu_remaining |-> Max(1, cpu_time),
     priority |-> priority,
     state |-> PRONTO,
     arrival_time |-> t,
     finish_time |-> None]

Init ==
    /\ processes = <<>>
    /\ next_pid = 1
    /\ rr_queue = <<>>
    /\ now = 1
    /\ pc = "idle"
    /\ algorithm = ""
    /\ cycle = 0
    /\ trace = <<>>
    /\ entry = <<>>
    /\ outcome = "none"

\* get_process_by_pid: index of the first process with that pid, or None
get_process_by_pid(pid) ==
    LET hits == {i \in 1..Len(processes) : processes[i].pid = pid}
    IN IF hits = {} THEN None
       ELSE CHOOSE i \in hits : \A j \in hits : i <= j

\* create_process without line 66: next_pid is not advanced
create_process_NoIncrement(cpu_time, priority) ==
    /\ pc = "idle"
    /\ Len(processes) < MaxProcs
    /\ \E t \in TimeValues :
        /\ processes' = Append(processes, NewProcess(next_pid, cpu_time, priority, t))
        /\ now' = t
    /\ rr_queue' = Append(rr_queue, next_pid)
    /\ UNCHANGED <<next_pid, pc, algorithm, cycle, trace, entry, outcome>>

create_process(cpu_time, priority) ==
    /\ pc = "idle"
    /\ Len(processes) < MaxProcs
    /\ \E t \in TimeValues :
        /\ processes' = Append(processes, NewProcess(next_pid, cpu_time, priority, t))
        /\ now' = t
    /\ rr_queue' = Append(rr_queue, next_pid)
    /\ next_pid' = next_pid + 1
    /\ UNCHANGED <<pc, algorithm, cycle, trace, entry, outcome>>

\* processes with the fields of process i replaced
SetProc(i, p) == [processes EXCEPT ![i] = p]

\* block_process without the test of lines 96-98
block_process_NoGuard(pid) ==
    /\ pc = "idle"
    /\ LET i == get_process_by_pid(pid) IN
        IF i = None
        THEN UNCHANGED processes
        ELSE processes' = SetProc(i, [processes[i] EXCEPT !.state = BLOQUEADO])
    /\ UNCHANGED <<next_pid, rr_queue, now, pc, algorithm, cycle, trace, entry, outcome>>

block_process(pid) ==
    /\ pc = "idle"
    /\ LET i == get_process_by_pid(pid) IN
        IF i = None
        THEN UNCHANGED processes
        ELSE IF processes[i].state = FINALIZADO
        THEN UNCHANGED processes
        ELSE processes' = SetProc(i, [processes[i] EXCEPT !.state = BLOQUEADO])
    /\ UNCHANGED <<next_pid, rr_queue, now, pc, algorithm, cycle, trace, entry, outcome>>

\* unblock_process that accepts any state
unblock_process_Any(pid) ==
    /\ pc = "idle"
    /\ LET i == get_process_by_pid(pid) IN
        IF i = None
        THEN UNCHANGED processes
        ELSE processes' = SetProc(i, [processes[i] EXCEPT !.state = PRONTO])
    /\ UNCHANGED <<next_pid, rr_queue, now, pc, algorithm, cycle, trace, entry, outcome>>

unblock_process(pid) ==
    /\ pc = "idle"
    /\ LET i == get_process_by_pid(pid) IN
        IF i = None
        THEN UNCHANGED processes
        ELSE IF processes[i].state = BLOQUEADO
        THEN processes' = SetProc(i, [processes[i] EXCEPT !.state = PRONTO])
        ELSE UNCHANGED processes
    /\ UNCHANGED <<next_pid, rr_queue, now, pc, algorithm, cycle, trace, entry, outcome>>

\* kill_process that forgets the timestamp
Killed_NoStamp(p, t) ==
    [p EXCEPT !.state = FINALIZADO, !.cpu_remaining = 0]

\* kill_process without line 121
Killed_KeepsRemaining(p, t) ==
    [p EXCEPT !.state = FINALIZADO, !.finish_time = t]

\* the process kill_process leaves behind: no test of the current state
Killed(p, t) ==
    [p EXCEPT !.state = FINALIZADO, !.cpu_remaining = 0, !.finish_time = t]

kill_process(pid) ==
    /\ pc = "idle"
    /\ LET i == get_process_by_pid(pid) IN
        IF i = None
        THEN UNCHANGED <<processes, now>>
        ELSE \E t \in TimeValues :
             /\ processes' = SetProc(i, Killed(processes[i], t))
             /\ now' = t
    /\ UNCHANGED <<next_pid, rr_queue, pc, algorithm, cycle, trace, entry, outcome>>

\* ---- the notices the three control operations print ----
BlockNotice(pid) ==
    LET i == get_process_by_pid(pid) IN
    IF i = None THEN "not_found"
    ELSE IF processes[i].state = FINALIZADO THEN "already_finished"
    ELSE "blocked"

UnblockNotice(pid) ==
    LET i == get_process_by_pid(pid) IN
    IF i = None THEN "not_found"
    ELSE IF processes[i].state = BLOQUEADO THEN "unblocked"
    ELSE "not_blocked"

KillNotice(pid) ==
    LET i == get_process_by_pid(pid) IN
    IF i = None THEN "not_found" ELSE "killed"

\* ---- selection ----

\* get_ready_processes that lets the blocked processes through
get_ready_processes_NotFinished ==
    SelectSeq([i \in 1..Len(processes) |-> i], LAMBDA i : processes[i].state # FINALIZADO)

\* get_ready_processes: the indices of the PRONTO processes, in table order
get_ready_processes ==
    SelectSeq([i \in 1..Len(processes) |-> i], LAMBDA i : processes[i].state = PRONTO)

\* min that keeps the last of the minimal elements
PyMin_Last(seq, key) ==
    LET k == CHOOSE n \in 1..Len(seq) :
                /\ \A m \in 1..Len(seq) : key[seq[n]] <= key[seq[m]]
                /\ \A m \in (n + 1)..Len(seq) : key[seq[m]] > key[seq[n]]
    IN seq[k]

\* Python's min(seq, key=...): the first element whose key is minimal
PyMin(seq, key) ==
    LET k == CHOOSE n \in 1..Len(seq) :
                /\ \A m \in 1..Len(seq) : key[seq[n]] <= key[seq[m]]
                /\ \A m \in 1..(n - 1) : key[seq[m]] > key[seq[n]]
    IN seq[k]

\* fifo that takes the newest PRONTO process
select_next_process_fifo_Newest ==
    LET ready == get_ready_processes
    IN IF ready # <<>> THEN ready[Len(ready)] ELSE None

select_next_process_fifo ==
    LET ready == get_ready_processes
    IN IF ready # <<>> THEN ready[1] ELSE None

KeyRemaining == [i \in 1..Len(processes) |-> processes[i].cpu_remaining]

\* the priority read as "higher value first"
KeyPriority_Inverted == [i \in 1..Len(processes) |-> 0 - processes[i].priority]

KeyPriority == [i \in 1..Len(processes) |-> processes[i].priority]

select_next_process_sjf ==
    LET ready == get_ready_processes
    IN IF ready # <<>> THEN PyMin(ready, KeyRemaining) ELSE None

select_next_process_prio ==
    LET ready == get_ready_processes
    IN IF ready # <<>> THEN PyMin(ready, KeyPriority) ELSE None

\* select_next_process_rr that puts what it skips back at the tail
RRPop_Requeue(q) ==
    LET found == {k \in 1..Len(q) : processes[q[k]].state = PRONTO}
    IN IF found = {} THEN [current |-> None, queue |-> q]
       ELSE LET k == CHOOSE n \in found : \A m \in found : n <= m
            IN [current |-> q[k],
                queue |-> SubSeq(q, k + 1, Len(q)) \o SubSeq(q, 1, k - 1)]

\* select_next_process_rr that reads the head without popping it
RRPop_Peek(q) ==
    LET found == {k \in 1..Len(q) : processes[q[k]].state = PRONTO}
    IN IF found = {} THEN [current |-> None, queue |-> <<>>]
       ELSE LET k == CHOOSE n \in found : \A m \in found : n <= m
            IN [current |-> q[k], queue |-> SubSeq(q, k, Len(q))]

\* select_next_process_rr: pop until a PRONTO process is found; what was popped
\* before it is dropped.  Yields the selection and the queue left behind.
RECURSIVE RRPop(_)
RRPop(q) ==
    IF q = <<>> THEN [current |-> None, queue |-> <<>>]
    ELSE IF processes[Head(q)].state = PRONTO
         THEN [current |-> Head(q), queue |-> Tail(q)]
         ELSE RRPop(Tail(q))

select_next_process_rr == RRPop(rr_queue)

\* ---- run_simulation ----
ValidAlgorithms == {"fifo", "sjf", "prio", "rr"}

run_simulation(alg) ==
    /\ pc = "idle"
    /\ pc' = "loop"
    /\ algorithm' = Lower(alg)
    /\ cycle' = 0
    /\ trace' = <<>>
    /\ entry' = [processes |-> processes, rr_queue |-> rr_queue]
    /\ UNCHANGED <<processes, next_pid, rr_queue, now, outcome>>

\* lines 166-172: no PRONTO process, the loop is left by `break`
RunNoReady ==
    /\ pc = "loop"
    /\ get_ready_processes = <<>>
    /\ LET non_finalized == {i \in 1..Len(processes) : processes[i].state # FINALIZADO}
       IN outcome' = IF non_finalized = {} THEN "all_finalized" ELSE "no_ready"
    /\ pc' = "halted"
    /\ UNCHANGED <<processes, next_pid, rr_queue, now, algorithm, cycle, trace, entry>>

\* lines 185-187: the name is tested only once a PRONTO process exists; the
\* function returns without the summary of lines 206-207
RunInvalid ==
    /\ pc = "loop"
    /\ get_ready_processes # <<>>
    /\ algorithm \notin ValidAlgorithms
    /\ outcome' = "invalid_algorithm"
    /\ pc' = "halted"
    /\ UNCHANGED <<processes, next_pid, rr_queue, now, algorithm, cycle, trace, entry>>

\* the selection without line 184: the process selected by rr is not re-enqueued
Selection_NoRequeue ==
    CASE algorithm = "fifo" -> [current |-> select_next_process_fifo, queue |-> rr_queue]
      [] algorithm = "sjf" -> [current |-> select_next_process_sjf, queue |-> rr_queue]
      [] algorithm = "prio" -> [current |-> select_next_process_prio, queue |-> rr_queue]
      [] algorithm = "rr" -> select_next_process_rr

\* the selection of one iteration (lines 175-184)
Selection ==
    CASE algorithm = "fifo" -> [current |-> select_next_process_fifo, queue |-> rr_queue]
      [] algorithm = "sjf" -> [current |-> select_next_process_sjf, queue |-> rr_queue]
      [] algorithm = "prio" -> [current |-> select_next_process_prio, queue |-> rr_queue]
      [] algorithm = "rr" ->
            LET r == select_next_process_rr
            IN IF r.current # None
               THEN [current |-> r.current, queue |-> Append(r.queue, r.current)]
               ELSE r

\* lines 189-190: nothing selected, the loop is left by `break`
RunNoneSelected ==
    /\ pc = "loop"
    /\ get_ready_processes # <<>>
    /\ algorithm \in ValidAlgorithms
    /\ Selection.current = None
    /\ rr_queue' = Selection.queue
    /\ pc' = "halted"
    /\ outcome' = "none_selected"
    /\ UNCHANGED <<processes, next_pid, now, algorithm, cycle, trace, entry>>

\* lines 192-204 without the decrement of line 194
Executed_NoDecrement(p, t) ==
    LET q == [p EXCEPT !.state = EXECUTANDO]
    IN IF q.cpu_remaining <= 0
       THEN [q EXCEPT !.state = FINALIZADO, !.finish_time = t]
       ELSE [q EXCEPT !.state = PRONTO]

\* lines 192-204 without the else branch of lines 203-204
Executed_StaysRunning(p, t) ==
    LET q == [p EXCEPT !.state = EXECUTANDO, !.cpu_remaining = p.cpu_remaining - 1]
    IN IF q.cpu_remaining <= 0
       THEN [q EXCEPT !.state = FINALIZADO, !.finish_time = t]
       ELSE q

\* lines 192-204 on the selected process
Executed(p, t) ==
    LET q == [p EXCEPT !.state = EXECUTANDO, !.cpu_remaining = p.cpu_remaining - 1]
    IN IF q.cpu_remaining <= 0
       THEN [q EXCEPT !.state = FINALIZADO, !.finish_time = t]
       ELSE [q EXCEPT !.state = PRONTO]

RunCycle ==
    /\ pc = "loop"
    /\ get_ready_processes # <<>>
    /\ algorithm \in ValidAlgorithms
    /\ LET sel == Selection IN
        /\ sel.current # None
        /\ rr_queue' = sel.queue
        /\ IF processes[sel.current].cpu_remaining - 1 <= 0
           THEN \E t \in TimeValues :
                    /\ processes' = SetProc(sel.current, Executed(processes[sel.current], t))
                    /\ now' = t
           ELSE /\ processes' = SetProc(sel.current, Executed(processes[sel.current], now))
                /\ now' = now
        /\ trace' = Append(trace, sel.current)
    /\ cycle' = cycle + 1
    /\ UNCHANGED <<next_pid, pc, algorithm, entry, outcome>>

\* run_simulation returns (line 187, or lines 206-207 after a `break`): its
\* locals go out of scope
RunReturn ==
    /\ pc = "halted"
    /\ pc' = "idle"
    /\ algorithm' = ""
    /\ cycle' = 0
    /\ trace' = <<>>
    /\ entry' = <<>>
    /\ outcome' = "none"
    /\ UNCHANGED <<processes, next_pid, rr_queue, now>>

\* ---- metrics ----

\* an Optional[float] result: <<>> is None, <<v>> the value v
\* Python truthiness of such a result: None and 0.0 are both false
TruthyResult(r) == r # <<>> /\ r[1] # 0

\* Process.turnaround_time
turnaround_time(p) ==
    IF Truthy(p.finish_time) THEN <<p.finish_time - p.arrival_time>> ELSE <<>>

\* Process.waiting_time
waiting_time(p) ==
    IF TruthyResult(turnaround_time(p))
    THEN <<turnaround_time(p)[1] - p.cpu_time>>
    ELSE <<>>

\* the line show_metrics prints for one process
MetricsRow(p) ==
    LET t == turnaround_time(p)
        w == waiting_time(p)
    IN IF TruthyResult(t)
       THEN [pid |-> p.pid, state |-> p.state, turnaround |-> t[1], waiting |-> w[1]]
       ELSE [pid |-> p.pid, state |-> p.state]

show_metrics == [i \in 1..Len(processes) |-> MetricsRow(processes[i])]

Next ==
    \/ \E c \in CpuInputs, p \in PrioInputs : create_process(c, p)
    \/ \E pid \in PidInputs : block_process(pid)
    \/ \E pid \in PidInputs : unblock_process(pid)
    \/ \E pid \in PidInputs : kill_process(pid)
    \/ \E alg \in AlgorithmInputs : run_simulation(alg)
    \/ RunNoReady
    \/ RunInvalid
    \/ RunNoneSelected
    \/ RunCycle
    \/ RunReturn

Spec == Init /\ [][Next]_vars

\* one iteration of the loop of run_simulation
LoopStep == RunNoReady \/ RunInvalid \/ RunNoneSelected \/ RunCycle

\* run_simulation is synchronous: once called, its loop keeps iterating
LiveSpec == Spec /\ WF_vars(LoopStep)

\* ---- properties ----
Procs == 1..Len(processes)
InRun == pc # "idle"

\* C1: at all times, between the cycles of a run included, every process has
\* 0 <= cpu_remaining <= cpu_time and cpu_time >= 1.
C1_DemandBounds ==
    \A i \in Procs :
        /\ 0 <= processes[i].cpu_remaining
        /\ processes[i].cpu_remaining <= processes[i].cpu_time
        /\ processes[i].cpu_time >= 1

\* a run has executed a cycle and left one process strictly between 0 and its
\* demand, next to a process that is at 0
C1_Witness ==
    /\ pc = "loop"
    /\ cycle >= 1
    /\ \E i \in Procs : /\ 0 < processes[i].cpu_remaining
                        /\ processes[i].cpu_remaining < processes[i].cpu_time
    /\ \E i \in Procs : processes[i].cpu_remaining = 0

\* C2: finish_time is set if and only if the state is FINALIZADO.
C2_StampIffFinished ==
    \A i \in Procs :
        (processes[i].finish_time # None) <=> (processes[i].state = FINALIZADO)

\* one process finished by a run, one still without a timestamp
C2_Witness ==
    /\ pc = "loop"
    /\ cycle >= 1
    /\ \E i \in Procs : processes[i].state = FINALIZADO /\ processes[i].finish_time # None
                        /\ entry.processes[i].state = PRONTO
    /\ \E i \in Procs : processes[i].state # FINALIZADO /\ processes[i].finish_time = None

\* C3: FINALIZADO is terminal: no step of any operation moves a finished process
\* to another state.
C3_FinishedTerminal ==
    [][\A i \in Procs :
          processes[i].state = FINALIZADO => processes'[i].state = FINALIZADO]_vars

\* a run has cycled past a process that was already finished when the run began
C3_Witness ==
    /\ pc = "loop"
    /\ cycle >= 1
    /\ \E i \in Procs : /\ entry.processes[i].state = FINALIZADO
                        /\ processes[i].state = FINALIZADO

\* C4: kill on a finished process reports "already finished" and leaves its
\* finish_time and cpu_remaining as they were; so a finish_time, once set, is
\* never overwritten by any operation.
C4_KillFinishedIsNoOp ==
    [][/\ \A pid \in PidInputs :
            LET i == get_process_by_pid(pid) IN
            (i # None /\ processes[i].state = FINALIZADO /\ kill_process(pid))
                => /\ KillNotice(pid) = "already_finished"
                   /\ processes'[i].finish_time = processes[i].finish_time
                   /\ processes'[i].cpu_remaining = processes[i].cpu_remaining
       /\ \A i \in Procs :
            processes[i].finish_time # None
                => processes'[i].finish_time = processes[i].finish_time]_vars

\* ---- the cycles of a run ----

\* this step is a cycle of the loop, and it executed process e
CycleOn(e) ==
    /\ pc = "loop"
    /\ cycle' = cycle + 1
    /\ e \in Procs
    /\ processes'[e].cpu_remaining = processes[e].cpu_remaining - 1
    /\ trace' = Append(trace, e)

IsCycle == pc = "loop" /\ cycle' = cycle + 1

Ready(i) == processes[i].state = PRONTO
EntryProcs == 1..Len(entry.processes)
EntryReady(i) == entry.processes[i].state = PRONTO

\* how many of the cycles a..b of the current run went to process p
Cycles(p, a, b) == Cardinality({k \in a..b : trace[k] = p})

\* process p, PRONTO when the run began, has finished before cycle k
FinishedBefore(p, k) == Cycles(p, 1, k - 1) = entry.processes[p].cpu_remaining

\* C5: under fifo every cycle executes the earliest PRONTO process of the table;
\* hence no process gets a cycle before every process ahead of it in the table
\* that was PRONTO when the run began has finished.
C5_FifoStep ==
    IsCycle /\ algorithm = "fifo"
        => \E e \in Procs : /\ CycleOn(e)
                            /\ Ready(e)
                            /\ \A j \in 1..(e - 1) : ~Ready(j)

C5_FifoOrder ==
    InRun /\ algorithm = "fifo"
        => \A k \in 1..Len(trace) : \A p \in 1..(trace[k] - 1) :
              EntryReady(p) => FinishedBefore(p, k)

\* C5: every fifo cycle takes the earliest PRONTO process, and the order of the
\* table is the order in which the processes PRONTO at the start of the run finish.
C5_Fifo == [][C5_FifoStep]_vars /\ []C5_FifoOrder

\* P1(demand 2), P2(demand 2), P3(demand 1): two cycles on P1, two on P2, one on P3
C5_Witness ==
    /\ pc = "halted"
    /\ algorithm = "fifo"
    /\ outcome = "all_finalized"
    /\ trace = <<1, 1, 2, 2, 3>>

\* C6: under sjf every cycle executes a PRONTO process whose cpu_remaining is
\* minimal among the PRONTO processes, the earliest of the table among those.
C6_SjfStep ==
    IsCycle /\ algorithm = "sjf"
        => \E e \in Procs :
              /\ CycleOn(e)
              /\ Ready(e)
              /\ \A r \in Procs : Ready(r) =>
                    processes[e].cpu_remaining <= processes[r].cpu_remaining
              /\ \A r \in 1..(e - 1) : Ready(r) =>
                    processes[r].cpu_remaining > processes[e].cpu_remaining

\* C6: every sjf cycle takes the earliest PRONTO process of minimal cpu_remaining.
C6_Sjf == [][C6_SjfStep]_vars

\* P1(demand 2), P2(demand 1), P3(demand 1): P2 wins the tie with P3, P1 runs last
C6_Witness ==
    /\ pc = "halted"
    /\ algorithm = "sjf"
    /\ cycle = 4
    /\ trace = <<2, 3, 1, 1>>

\* C7: under prio every cycle executes a PRONTO process whose priority value is
\* minimal among the PRONTO processes, the earliest of the table among those;
\* hence of two processes PRONTO when the run began, the one with the strictly
\* higher value gets no cycle before the other has finished.
C7_PrioStep ==
    IsCycle /\ algorithm = "prio"
        => \E e \in Procs :
              /\ CycleOn(e)
              /\ Ready(e)
              /\ \A r \in Procs : Ready(r) =>
                    processes[e].priority <= processes[r].priority
              /\ \A r \in 1..(e - 1) : Ready(r) =>
                    processes[r].priority > processes[e].priority

C7_PrioOrder ==
    InRun /\ algorithm = "prio"
        => \A k \in 1..Len(trace) : \A p \in EntryProcs :
              (/\ EntryReady(p)
               /\ EntryReady(trace[k])
               /\ entry.processes[p].priority < entry.processes[trace[k]].priority)
                  => FinishedBefore(p, k)

\* C7: every prio cycle takes the earliest PRONTO process of minimal priority
\* value, and a higher value waits for every lower one PRONTO at the start.
C7_Prio == [][C7_PrioStep]_vars /\ []C7_PrioOrder

\* P1(priority 2, demand 2), P2(priority 1, demand 2): P2 twice, then P1 twice
C7_Witness ==
    /\ pc = "halted"
    /\ algorithm = "prio"
    /\ Len(processes) = 2
    /\ processes[1].priority = 2
    /\ processes[2].priority = 1
    /\ trace = <<2, 2, 1, 1>>

\* the run began on a table as a session of creations alone leaves it: every
\* process PRONTO, and the queue holding all of them in creation order
CreatedOnly ==
    /\ \A i \in EntryProcs : EntryReady(i)
    /\ entry.rr_queue = [i \in EntryProcs |-> i]

\* C8: after creations alone, rr serves the processes in creation order, one
\* cycle a turn: the first turn goes 1, 2, ..., between two consecutive cycles of
\* a process every other process not yet finished gets exactly one cycle (a
\* finished one none), and the run ends with every process finished.
C8_RoundRobin ==
    InRun /\ algorithm = "rr" /\ CreatedOnly
        => /\ \A k \in 1..Len(trace) : k <= Len(entry.processes) => trace[k] = k
           /\ \A k \in 1..Len(trace) : \A l \in (k + 1)..Len(trace) :
                (trace[k] = trace[l] /\ Cycles(trace[k], k + 1, l - 1) = 0)
                    => \A q \in EntryProcs \ {trace[k]} :
                          Cycles(q, k + 1, l - 1) =
                              IF FinishedBefore(q, k + 1) THEN 0 ELSE 1
           /\ pc = "halted"
                => /\ outcome = "all_finalized"
                   /\ \A i \in Procs : processes[i].state = FINALIZADO
                   /\ \A i \in Procs : Cycles(i, 1, Len(trace)) = processes[i].cpu_time

\* P1(2), P2(1), P3(2): P1 P2 P3, then P1 P3 with the finished P2 skipped
C8_Witness ==
    /\ pc = "halted"
    /\ algorithm = "rr"
    /\ CreatedOnly
    /\ trace = <<1, 2, 3, 1, 3>>

\* C9: a run with a valid policy that finds no PRONTO process and at least one
\* BLOQUEADO process leaves the loop at once with "no_ready": no cycle, and the
\* table and the queue as they were.
C9_NoReady ==
    (/\ InRun
     /\ algorithm \in ValidAlgorithms
     /\ \A i \in EntryProcs : ~EntryReady(i)
     /\ \E i \in EntryProcs : entry.processes[i].state = BLOQUEADO)
        => /\ cycle = 0
           /\ trace = <<>>
           /\ processes = entry.processes
           /\ rr_queue = entry.rr_queue
           /\ pc = "halted" => outcome = "no_ready"
           /\ pc = "loop" => ENABLED RunNoReady /\ ~ENABLED RunCycle

\* rr has halted on a table with a blocked process and a non-empty queue
C9_Witness ==
    /\ pc = "halted"
    /\ algorithm = "rr"
    /\ outcome = "no_ready"
    /\ rr_queue # <<>>
    /\ \A i \in Procs : ~Ready(i)
    /\ \E i \in Procs : processes[i].state = BLOQUEADO

\* C10: whatever the table holds, a run with a name outside the four policies
\* ends with the invalid-policy outcome, no cycle and nothing changed.
C10_InvalidPolicy ==
    (pc = "halted" /\ algorithm \notin ValidAlgorithms)
        => /\ outcome = "invalid_algorithm"
           /\ cycle = 0
           /\ processes = entry.processes
           /\ rr_queue = entry.rr_queue

\* ---- the control operations and creation ----

\* the operation would change something
Changes(op) == op /\ vars' # vars

\* C11: block, unblock and kill of an id the table does not hold, unblock of a
\* process that is not BLOQUEADO and block of a FINALIZADO process change nothing
\* of the session, and the notice for a missing id is "not_found", which the
\* two refused transitions never print.
C11_RefusedChangesNothing ==
    pc = "idle" =>
        \A pid \in PidInputs :
            LET i == get_process_by_pid(pid) IN
            /\ i = None =>
                  /\ BlockNotice(pid) = "not_found"
                  /\ UnblockNotice(pid) = "not_found"
                  /\ KillNotice(pid) = "not_found"
                  /\ ~ENABLED Changes(block_process(pid))
                  /\ ~ENABLED Changes(unblock_process(pid))
                  /\ ~ENABLED Changes(kill_process(pid))
            /\ (i # None /\ processes[i].state # BLOQUEADO) =>
                  /\ UnblockNotice(pid) = "not_blocked"
                  /\ ~ENABLED Changes(unblock_process(pid))
            /\ (i # None /\ processes[i].state = FINALIZADO) =>
                  /\ BlockNotice(pid) = "already_finished"
                  /\ ~ENABLED Changes(block_process(pid))

\* a table that offers all the refused cases: a finished process, a ready one,
\* a blocked one, and an id that is not there
C11_Witness ==
    /\ pc = "idle"
    /\ \E i \in Procs : processes[i].state = FINALIZADO
    /\ \E i \in Procs : processes[i].state = PRONTO
    /\ \E i \in Procs : processes[i].state = BLOQUEADO
    /\ \E pid \in PidInputs : get_process_by_pid(pid) = None

\* C12: the k-th creation appends, to the table and to the queue, a PRONTO
\* process with pid k and cpu_remaining = cpu_time = max(1, requested demand);
\* only creation lengthens the table, and no pid occurs twice.
C12_CreateStep ==
    /\ \A c \in CpuInputs, p \in PrioInputs :
          create_process(c, p) =>
              LET k == Len(processes) + 1
                  new == processes'[k]
              IN /\ Len(processes') = k
                 /\ SubSeq(processes', 1, k - 1) = processes
                 /\ new.pid = k
                 /\ new.state = PRONTO
                 /\ new.cpu_time = (IF c < 1 THEN 1 ELSE c)
                 /\ new.cpu_remaining = new.cpu_time
                 /\ new.priority = p
                 /\ rr_queue' = Append(rr_queue, k)
    /\ Len(processes') # Len(processes) =>
          \E c \in CpuInputs, p \in PrioInputs : create_process(c, p)
    /\ \A i, j \in 1..Len(processes') :
          processes'[i].pid = processes'[j].pid => i = j

\* C12: creation hands out the pids 1, 2, 3, ... whatever happens in between.
C12_Create == [][C12_CreateStep]_vars

\* the third creation came after a block, a kill and an rr run that dropped P1
\* from the queue
C12_Witness ==
    /\ Len(processes) = 3
    /\ processes[3].pid = 3
    /\ processes[3].state = PRONTO
    /\ processes[1].state = BLOQUEADO
    /\ processes[2].state = FINALIZADO
    /\ rr_queue = <<2, 3>>

\* ---- metrics ----

\* C13: with finish_time set (and not before arrival_time) turnaround is
\* finish_time - arrival_time, waiting is turnaround - cpu_time and the report
\* line shows both; with finish_time unset both are absent and the line shows
\* the pid and the state only.
C13_Metrics ==
    \A i \in Procs :
        LET p == processes[i] IN
        /\ (p.finish_time # None /\ p.finish_time >= p.arrival_time) =>
              /\ turnaround_time(p) = <<p.finish_time - p.arrival_time>>
              /\ waiting_time(p) = <<p.finish_time - p.arrival_time - p.cpu_time>>
              /\ DOMAIN show_metrics[i] = {"pid", "state", "turnaround", "waiting"}
              /\ show_metrics[i].turnaround = p.finish_time - p.arrival_time
              /\ show_metrics[i].waiting = p.finish_time - p.arrival_time - p.cpu_time
        /\ p.finish_time = None =>
              /\ turnaround_time(p) = <<>>
              /\ waiting_time(p) = <<>>
              /\ DOMAIN show_metrics[i] = {"pid", "state"}

\* ---- the halting of a run ----

\* C14: whenever the loop finds a PRONTO process, the policy selects a process.
C14_SelectionNeverNone ==
    (pc = "loop" /\ algorithm \in ValidAlgorithms /\ get_ready_processes # <<>>)
        => Selection.current # None

\* C15: when a run with a valid policy has left its loop, no process is PRONTO:
\* either all are FINALIZADO or the unfinished ones are BLOQUEADO.
C15_HaltedMeansNoReady ==
    (pc = "halted" /\ algorithm \in ValidAlgorithms)
        => /\ \A i \in Procs : ~Ready(i)
           /\ outcome \in {"all_finalized", "no_ready"}
           /\ outcome = "all_finalized" <=> \A i \in Procs : processes[i].state = FINALIZADO

\* the cpu_remaining of the processes 1..n that were PRONTO when the run began
RECURSIVE EntryDemand(_)
EntryDemand(n) ==
    IF n = 0 THEN 0
    ELSE EntryDemand(n - 1) + (IF EntryReady(n) THEN entry.processes[n].cpu_remaining ELSE 0)

C16_CycleBound ==
    (InRun /\ algorithm \in ValidAlgorithms) => cycle <= EntryDemand(Len(entry.processes))

\* C16: a run with a valid policy leaves its loop, after at most as many cycles
\* as the processes PRONTO at its start had cpu_remaining in total.
C16_Terminates ==
    /\ []C16_CycleBound
    /\ (pc = "loop" /\ algorithm \in ValidAlgorithms) ~> (pc = "halted")

\* a run has used up the whole bound: three processes, five cycles
C16_Witness ==
    /\ pc = "halted"
    /\ algorithm \in ValidAlgorithms
    /\ cycle = 5
    /\ cycle = EntryDemand(Len(entry.processes))

\* ---- the rotation queue ----
InQueue(i) == \E k \in 1..Len(rr_queue) : rr_queue[k] = i

\* C17: an rr selection drops from the queue every process it pops while that
\* process is not PRONTO; a process of the table that is not in the queue is
\* never put back by any operation; and rr executes processes of the queue
\* only, so a process dropped while blocked is never executed by rr again.
C17_DiscardStep ==
    /\ (pc = "loop" /\ algorithm = "rr" /\ get_ready_processes # <<>>) =>
          \A k \in 1..Len(rr_queue) :
              (\A j \in 1..k : ~Ready(rr_queue[j]))
                  => \A n \in 1..Len(rr_queue') : rr_queue'[n] # rr_queue[k]
    /\ \A i \in Procs :
          ~InQueue(i) => \A n \in 1..Len(rr_queue') : rr_queue'[n] # i
    /\ (IsCycle /\ algorithm = "rr") => \E e \in Procs : CycleOn(e) /\ InQueue(e)

\* C17: what rr drops from the queue stays out of it.
C17_Discard == [][C17_DiscardStep]_vars

\* an rr run has ended with nothing selected: a process that was dropped while
\* blocked is PRONTO again, untouched, and not in the queue
C17_Witness ==
    /\ pc = "halted"
    /\ algorithm = "rr"
    /\ outcome = "none_selected"
    /\ \E i \in Procs : /\ Ready(i)
                        /\ ~InQueue(i)
                        /\ processes[i].cpu_remaining = processes[i].cpu_time

\* ---- one cycle ----

\* C18: a cycle takes exactly one unit from the selected process and adds one to
\* the cycle counter; every other process is left as it was, and the selected
\* one ends FINALIZADO when its cpu_remaining is 0 and PRONTO otherwise, with its
\* other fields untouched.  No process is ever left EXECUTANDO.
C18_CycleStep ==
    /\ IsCycle =>
          LET e == Selection.current IN
          /\ e \in Procs
          /\ CycleOn(e)
          /\ Len(processes') = Len(processes)
          /\ \A i \in Procs \ {e} : processes'[i] = processes[i]
          /\ processes'[e].state =
                IF processes'[e].cpu_remaining = 0 THEN FINALIZADO ELSE PRONTO
          /\ processes'[e].finish_time # None <=> processes'[e].cpu_remaining = 0
          /\ processes'[e].pid = processes[e].pid
          /\ processes'[e].cpu_time = processes[e].cpu_time
          /\ processes'[e].priority = processes[e].priority
          /\ processes'[e].arrival_time = processes[e].arrival_time
    /\ \A i \in 1..Len(processes') : processes'[i].state # EXECUTANDO

\* C18: every cycle is one unit of one process.
C18_Cycle == [][C18_CycleStep]_vars

\* a run is between two cycles: the last one left its process PRONTO with one
\* unit less, and an earlier one finished another process
C18_Witness ==
    /\ pc = "loop"
    /\ cycle >= 2
    /\ LET e == trace[Len(trace)] IN
          /\ processes[e].state = PRONTO
          /\ processes[e].cpu_remaining = processes[e].cpu_time - 1
          /\ processes[e].cpu_remaining >= 1
    /\ \E i \in Procs : /\ processes[i].state = FINALIZADO
                        /\ entry.processes[i].state = PRONTO

\* C19: cpu_remaining is 0 exactly for the FINALIZADO processes; a PRONTO or
\* BLOQUEADO process has at least one unit left.
C19_ZeroIffFinished ==
    \A i \in Procs :
        /\ (processes[i].cpu_remaining = 0) <=> (processes[i].state = FINALIZADO)
        /\ processes[i].state \in {PRONTO, BLOQUEADO} => processes[i].cpu_remaining >= 1

\* one process killed before it ran, one finished by the run, one blocked
C19_Witness ==
    /\ pc = "halted"
    /\ cycle >= 1
    /\ \E i \in Procs : /\ processes[i].state = FINALIZADO
                        /\ entry.processes[i].state = FINALIZADO
                        /\ processes[i].cpu_time = 2
    /\ \E i \in Procs : /\ processes[i].state = FINALIZADO
                        /\ entry.processes[i].state = PRONTO
    /\ \E i \in Procs : /\ processes[i].state = BLOQUEADO
                        /\ processes[i].cpu_remaining >= 1

\* C20: no pid occurs twice in rr_queue, and every pid in it is a process of
\* the table; between the cycles of an rr run as well.
C20_QueueWellFormed ==
    /\ \A k \in 1..Len(rr_queue) : rr_queue[k] \in Procs
    /\ \A k, l \in 1..Len(rr_queue) : rr_queue[k] = rr_queue[l] => k = l

\* an rr run is between two cycles and has rotated the queue of three
C20_Witness ==
    /\ pc = "loop"
    /\ algorithm = "rr"
    /\ cycle >= 1
    /\ rr_queue = <<3, 1, 2>>
====
